---- MODULE Spec2Model ----
(***************************************************************************)
(* Verification model of the staged CIDR scanner (scanner.js): the        *)
(* address-range helpers, the bounded queue createQueue and the two-stage  *)
(* scan runSmartScan, together with the stop request the preload script    *)
(* exposes.                                                                *)
(*                                                                         *)
(* Granularity.  Node runs one callback at a time and drains every         *)
(* microtask before it takes the next I/O event.  An action of this model  *)
(* is therefore one I/O event (a probe completing, the remote list         *)
(* arriving, an IPC request) with every synchronous consequence: the rest  *)
(* of the task body, the hooks, the settlement of the submit promise, the  *)
(* queue's finally handler and the tasks pump() starts.  The continuation  *)
(* of runSmartScan after "await Promise.all(...)" is a microtask of its    *)
(* own and is an action of its own; when it runs no probe is pending.      *)
(*                                                                         *)
(* 32-bit values.  A 32-bit word is kept as [hi, lo]: hi its upper 24 bits *)
(* (the /24 block number), lo its low 8 bits.  The signed reading that     *)
(* JavaScript's & and << give is Signed24 of hi.                           *)
(***************************************************************************)
EXTENDS Integers, Sequences, FiniteSets, TLC

\* ------------------------------------------------------------ bounds
MaxConcurrency == 2
MaxSamples == 2
MaxExpand == 3
MaxLatency == 2
MaxStageTasks == 3
MaxQueueTasks == 4
\* ping.ts: the most lines of valid.txt, and the number of workers, which
\* the script fixes at 80 and the model scales down.
MaxIps == 4
PoolConcurrency == 2

\* ------------------------------------------------- program constants
BlockSize == 256
MaxOffset == 254
NullMs == -1

Min(a, b) == IF a < b THEN a ELSE b

Max(a, b) == IF a > b THEN a ELSE b

Range(s) == {s[i] : i \in DOMAIN s}

Pow24 == 2 ^ 24

\* ------------------------------------------ helpers: networking / cidr

\* A number n >= 0 as a 32-bit word.
Word(n) == [hi |-> (n \div 256) % Pow24, lo |-> n % 256]

\* (a << 8) + b as a 32-bit word, for a word a and a number b >= 0.
Shl8Add(a, b) ==
    [hi |-> ((a.hi % 65536) * 256 + a.lo + (b \div 256)) % Pow24, lo |-> b % 256]

RECURSIVE Reduce(_, _)
\* The rest of reduce((a, b) => (a << 8) + b) from the accumulator acc.
Reduce(acc, rest) ==
    IF rest = <<>> THEN acc ELSE Reduce(Shl8Add(acc, Head(rest)), Tail(rest))

\* ip.split(".").map(Number).reduce((a, b) => (a << 8) + b): for four octets
\* in 0..255 the bit pattern o1.o2.o3.o4; the parts are not counted and not
\* range-checked, and reduce starts from the first of them.
ipToInt(ip) == Reduce(Word(ip[1]), Tail(ip))

\* [n >>> 24, (n >> 16) & 255, (n >> 8) & 255, n & 255].join(".")
intToIp(n) ==
    <<n.hi \div 65536, (n.hi \div 256) % 256, n.hi % 256, n.lo>>

\* (blockStartInt + off) >>> 0 for a block number b and an offset.
AddOffset(b, off) ==
    [hi |-> (b + (off \div BlockSize)) % Pow24, lo |-> off % BlockSize]

\* The signed 32-bit reading of a word whose low 8 bits are zero, in units
\* of 256: what "x & 0xffffff00" evaluates to.
Signed24(hi) == IF hi >= Pow24 \div 2 THEN hi - Pow24 ELSE hi

\* The guard of parseCIDR.  A CIDR text is kept as what split("/") and
\* parseInt make of it: base, the octets of the part before the slash (<<>>
\* when that part is empty); bits, the parsed prefix length; nan, whether
\* parseInt found no number.
BadCIDR(cidr) ==
    \/ cidr.base = <<>>
    \/ cidr.nan
    \/ cidr.bits < 0
    \/ cidr.bits > 32

\* Mutant of parseCIDR: the base is not masked.
parseCIDRUnmasked(cidr) ==
    LET baseInt == ipToInt(cidr.base)
        low == 32 - cidr.bits
        last == IF low >= 8
                THEN [hi |-> (baseInt.hi + 2 ^ (low - 8) - 1) % Pow24, lo |-> 255]
                ELSE [hi |-> baseInt.hi, lo |-> (baseInt.lo + 2 ^ low - 1) % BlockSize]
    IN  [first |-> baseInt, last |-> last]

parseCIDR(cidr) ==
    LET baseInt == ipToInt(cidr.base)
        low == 32 - cidr.bits
        \* baseInt & mask, with mask = 0 for bits = 0
        network == IF low >= 8
                   THEN [hi |-> baseInt.hi - (baseInt.hi % (2 ^ (low - 8))), lo |-> 0]
                   ELSE [hi |-> baseInt.hi, lo |-> baseInt.lo - (baseInt.lo % (2 ^ low))]
        \* (network + size - 1) >>> 0, size = 2 ** (32 - bits)
        last == IF low >= 8
                THEN [hi |-> (network.hi + 2 ^ (low - 8) - 1) % Pow24, lo |-> 255]
                ELSE [hi |-> network.hi, lo |-> network.lo + 2 ^ low - 1]
    IN  [first |-> network, last |-> last]

\* list24Blocks: start24 = first & 0xffffff00 and end24 = last & 0xffffff00
\* are signed; the loop runs b = start24; b <= end24; b += 256 and pushes
\* b >>> 0.  A block is kept as its number, its address divided by 256.
list24Blocks(cidr) ==
    LET r == parseCIDR(cidr)
        start24 == Signed24(r.first.hi)
        end24 == Signed24(r.last.hi)
    IN  IF start24 > end24 THEN <<>>
        ELSE [i \in 1..(end24 - start24 + 1) |-> (start24 + i - 1) % Pow24]

candidates == <<10, 42, 77, 99, 123, 150, 180, 200, 220, 240>>

\* Mutant of SampleStep: the offset is not wrapped into 1..254.
SampleStepNoWrap(picks, idx, k) ==
    IF Len(picks) >= Min(k, MaxOffset) THEN picks
    ELSE LET off == candidates[(idx % Len(candidates)) + 1] + (idx \div Len(candidates))
         IN  IF off \in Range(picks) THEN picks ELSE Append(picks, off)

\* One turn of the while loop of sampleIPsIn24 with the index idx, if the
\* loop has not ended: picks is the insertion-ordered Set.
SampleStep(picks, idx, k) ==
    IF Len(picks) >= Min(k, MaxOffset) THEN picks
    ELSE LET o == candidates[(idx % Len(candidates)) + 1] + (idx \div Len(candidates))
             off == 1 + ((o - 1) % MaxOffset)
         IN  IF off \in Range(picks) THEN picks ELSE Append(picks, off)

RECURSIVE SampleLoop(_, _, _, _)
\* The turns of the loop with the indices from..(to - 1), in order, up to
\* the turn at which the loop ends.
SampleLoop(picks, from, to, k) ==
    IF Len(picks) >= Min(k, MaxOffset) \/ to <= from THEN picks
    ELSE IF to = from + 1 THEN SampleStep(picks, from, k)
    ELSE LET mid == (from + to) \div 2
         IN  SampleLoop(SampleLoop(picks, from, mid, k), mid, to, k)

\* The while loop of sampleIPsIn24 from the index idx on, followed for the
\* 254 rounds of the candidates after which every offset has come up.
SamplePicks(picks, idx, k) ==
    SampleLoop(picks, idx, idx + MaxOffset * Len(candidates), k)

\* Array.from(picks).slice(0, k).map(off => intToIp((blockStartInt + off) >>> 0))
sampleIPsIn24(blockStartInt, k) ==
    LET picks == SamplePicks(<<>>, 0, k)
        kept == SubSeq(picks, 1, Min(Len(picks), Max(k, 0)))
    IN  [i \in 1..Len(kept) |-> intToIp(AddOffset(blockStartInt, kept[i]))]

\* for (off = 0; off < Math.min(limit, 256); off++) ips.push(intToIp(b + off))
\* Mutant of ipsOf24: the last address of the block is never listed.
ipsOf24NoLast(blockStartInt, limit) ==
    [i \in 1..Max(0, Min(limit, BlockSize - 1)) |-> intToIp(AddOffset(blockStartInt, i - 1))]

ipsOf24(blockStartInt, limit) ==
    [i \in 1..Max(0, Min(limit, BlockSize)) |-> intToIp(AddOffset(blockStartInt, i - 1))]

RECURSIVE flatMap(_)
\* xs.flatMap(f) / nested for-of loops that push every element of f(x).
flatMap(xss) ==
    IF xss = <<>> THEN <<>> ELSE Head(xss) \o flatMap(Tail(xss))

\* ------------------------------------------------------------- state
VARIABLES
    config,        \* the config object handed to runSmartScan / the queue's limit
    pc,            \* where runSmartScan is: idle, fetching, stageA, stageB, done, failed
    error,         \* the lines of the error runSmartScan threw (<<>> while it has not)
    blocks,        \* const blocks
    tasks,         \* the task bodies handed to the queue, with their position
    q,             \* createQueue: q, as indices into tasks
    active,        \* createQueue: active
    hotBlocks,     \* const hotBlocks = new Set(), in insertion order
    stageADone,    \* let stageADone
    stageBDone,    \* let stageBDone
    expandTargets, \* const expandTargets
    valid,         \* const valid
    stages,        \* the onStage calls made, in order
    found,         \* the onValid calls made, in order
    result,        \* the object runSmartScan returned (<<>> while it has not)
    stopRequested, \* the renderer has invoked "scan:stop"
    events,        \* the onProgress and onValid calls made, in order
    probeCall,     \* one call of tcpOpen, httpHead or pingOnce, followed event by event
    pool           \* the worker pool of ping.ts: its input, index, workers and output

vars == <<config, pc, error, blocks, tasks, q, active, hotBlocks, stageADone,
          stageBDone, expandTargets, valid, stages, found, result, stopRequested,
          events, probeCall, pool>>

\* ------------------------------------------------------------- inputs
Net10 == [base |-> <<10, 0, 0, 0>>, bits |-> 24, nan |-> FALSE]

Sub10 == [base |-> <<10, 0, 0, 130>>, bits |-> 25, nan |-> FALSE]

Wide10 == [base |-> <<10, 0, 0, 0>>, bits |-> 23, nan |-> FALSE]

All0 == [base |-> <<0, 0, 0, 0>>, bits |-> 0, nan |-> FALSE]

Bad33 == [base |-> <<10, 0, 0, 0>>, bits |-> 33, nan |-> FALSE]

\* The cidrs a config may carry: none (the remote list is fetched), one
\* block, two blocks, the same block twice (the second time from an
\* unaligned base), a block that a wider range repeats, no block at all, and
\* a bad prefix length.
CidrLists ==
    {<<>>, <<Net10>>, <<Wide10>>, <<Net10, Sub10>>, <<Wide10, Net10>>,
     <<All0>>, <<Bad33>>, <<Net10, Bad33>>}

\* What the remote list and the fallback file may hold.
RemoteLists == {<<Net10>>}

FallbackLists == {<<>>, <<Sub10>>, <<Sub10, Bad33>>}

HostHeaders == {"", "example.com"}

Latencies == 1..MaxLatency

\* The ranges a scan may end up with, for a config.
ListsOf(cfg) ==
    IF cfg.cidrs = <<>> THEN RemoteLists \cup FallbackLists ELSE {cfg.cidrs}

\* The model explores the scans whose two stages have at most MaxStageTasks
\* tasks each and at most one more than that together.
Feasible(cidrs, samples, expand) ==
    \/ \E i \in DOMAIN cidrs : BadCIDR(cidrs[i])
    \/ LET bl == flatMap([i \in 1..Len(cidrs) |-> list24Blocks(cidrs[i])])
           stageA == Len(bl) * Min(samples, MaxOffset)
           stageB == Cardinality(Range(bl)) * Max(0, Min(expand, BlockSize))
       IN  /\ stageA <= MaxStageTasks
           /\ stageB <= MaxStageTasks
           /\ stageA + stageB <= MaxStageTasks + 1

Configs ==
    {cfg \in [cidrs : CidrLists, hostHeader : HostHeaders,
              concurrency : (-1)..MaxConcurrency, samplesPer24 : 1..MaxSamples,
              expandLimitPer24 : 0..MaxExpand] :
        \A l \in ListsOf(cfg) : Feasible(l, cfg.samplesPer24, cfg.expandLimitPer24)}

\* -------------------------------------------------------------- queue
\* A task handed to the queue: its stage ("A", "B", or "Q" for a task of a
\* direct user of createQueue), its target, where its body is (queued: not
\* started; tcp, head, ping: awaiting that probe; running: a "Q" task
\* awaiting its own work; done, resolved, rejected: settled) and log, the
\* probe results it has seen so far.
Task(stage, block, ip) ==
    [stage |-> stage, block |-> block, ip |-> ip, pc |-> "queued", log |-> <<>>]

Settled(t) == t.pc \in {"done", "resolved", "rejected"}

Started(t) == t.pc # "queued"

\* job.fn() runs the task body up to its first await: tcpOpen in both stages.
FirstAwait(t) == IF t.stage = "Q" THEN "running" ELSE "tcp"

\* Mutant of PumpGuard: the comparison off by one.
PumpGuardLax(qs, limit) == qs.active <= limit /\ qs.q # <<>>

\* Mutant of PumpGuard: a limit of zero or less is no limit.
PumpGuardUnlimited(qs, limit) == (limit <= 0 \/ qs.active < limit) /\ qs.q # <<>>

\* The loop guard of pump.
PumpGuard(qs, limit) == qs.active < limit /\ qs.q # <<>>

RECURSIVE pumpLast(_, _)
\* Mutant of pump: the job taken is the newest one (q.pop()).
pumpLast(qs, limit) ==
    IF PumpGuard(qs, limit)
    THEN LET j == qs.q[Len(qs.q)]
         IN  pumpLast([q |-> SubSeq(qs.q, 1, Len(qs.q) - 1), active |-> qs.active + 1,
                       tasks |-> [qs.tasks EXCEPT ![j].pc = FirstAwait(qs.tasks[j])]],
                      limit)
    ELSE qs

RECURSIVE pump(_, _)
\* pump: while (active < limit && q.length) { active++; q.shift().fn()... }
pump(qs, limit) ==
    IF PumpGuard(qs, limit)
    THEN pump([q |-> Tail(qs.q), active |-> qs.active + 1,
               tasks |-> [qs.tasks EXCEPT ![Head(qs.q)].pc =
                                              FirstAwait(qs.tasks[Head(qs.q)])]], limit)
    ELSE qs

\* The function createQueue returns: q.push({fn, resolve, reject}); pump().
submit(qs, task, limit) ==
    pump([q |-> Append(qs.q, Len(qs.tasks) + 1), active |-> qs.active,
          tasks |-> Append(qs.tasks, task)], limit)

RECURSIVE SubmitAll(_, _, _)
\* targets.map(t => limitQ(async () => ...)): one submit per target, in order.
SubmitAll(qs, ts, limit) ==
    IF ts = <<>> THEN qs ELSE SubmitAll(submit(qs, Head(ts), limit), Tail(ts), limit)

\* Mutant of settle: the slot is freed in a then-handler, which a rejection
\* skips.
settleThenOnly(qs, i, how, limit) ==
    IF how = "rejected"
    THEN [q |-> qs.q, active |-> qs.active,
          tasks |-> [qs.tasks EXCEPT ![i].pc = how]]
    ELSE pump([q |-> qs.q, active |-> qs.active - 1,
               tasks |-> [qs.tasks EXCEPT ![i].pc = how]], limit)

\* Mutant of settle: both handlers of then are job.resolve.
settleResolveOnly(qs, i, how, limit) ==
    pump([q |-> qs.q, active |-> qs.active - 1,
          tasks |-> [qs.tasks EXCEPT ![i].pc = IF how = "rejected" THEN "resolved"
                                               ELSE how]], limit)

\* Task i's body has returned or thrown: job.resolve / job.reject, then the
\* finally handler: active--; pump().
settle(qs, i, how, limit) ==
    pump([q |-> qs.q, active |-> qs.active - 1,
          tasks |-> [qs.tasks EXCEPT ![i].pc = how]], limit)

\* Mutant of AllSettled: the stage is over when any task is (Promise.race).
AnySettled(ts) == \E i \in DOMAIN ts : Settled(ts[i])

\* Promise.all over the submit promises of a stage resolves when all have.
AllSettled(ts) == \A i \in DOMAIN ts : Settled(ts[i])

Queue == [q |-> q, active |-> active, tasks |-> tasks]

SetQueue(qs) == q' = qs.q /\ active' = qs.active /\ tasks' = qs.tasks

Logged(qs, i, entry) == [qs EXCEPT !.tasks[i].log = Append(@, entry)]

Awaiting(qs, i, probe) == [qs EXCEPT !.tasks[i].pc = probe]

TcpResult(open) == [probe |-> "tcp", ok |-> open, ms |-> NullMs]

HeadResult(ok) == [probe |-> "head", ok |-> ok, ms |-> NullMs]

PingResults ==
    {[probe |-> "ping", ok |-> FALSE, ms |-> NullMs]}
        \cup {[probe |-> "ping", ok |-> TRUE, ms |-> m] : m \in Latencies}

\* ------------------------------------------------------- runSmartScan
\* Mutant of onProgress: the count is reported before it is incremented.
onProgressStale(ev, stage, done, total) ==
    Append(ev, [kind |-> "progress", stage |-> stage, done |-> done - 1, total |-> total])

\* onProgress({ stage, done, total })
onProgress(ev, stage, done, total) ==
    Append(ev, [kind |-> "progress", stage |-> stage, done |-> done, total |-> total])

\* Mutant of onValid: only the first accepted entry is announced.
onValidFirstOnly(ev, item) ==
    IF \E k \in DOMAIN ev : ev[k].kind = "valid" THEN ev
    ELSE Append(ev, [kind |-> "valid", ip |-> item.ip, ms |-> item.ms])

\* onValid(item)
onValid(ev, item) == Append(ev, [kind |-> "valid", ip |-> item.ip, ms |-> item.ms])

Throw(e) ==
    /\ pc' = "failed"
    /\ error' = e
    /\ UNCHANGED <<config, blocks, tasks, q, active, hotBlocks, stageADone, stageBDone,
                   expandTargets, valid, stages, found, result, stopRequested, probeCall, pool, events>>

\* for (const b of blocks) for (const ip of sampleIPsIn24(b, samplesPer24))
\*   sampleTargets.push({ block: b, ip })
SampleTargets(bl, samplesPer24) ==
    LET OfBlock(b) == LET picks == sampleIPsIn24(b, samplesPer24)
                      IN  [i \in 1..Len(picks) |-> Task("A", b, picks[i])]
    IN  flatMap([i \in 1..Len(bl) |-> OfBlock(bl[i])])

\* Mutant of ExpandList: every scanned block is expanded, hot or not.
ExpandEveryBlock(hot, expandLimitPer24) ==
    LET OfBlock(b) == LET ips == ipsOf24(b, expandLimitPer24)
                      IN  [i \in 1..Len(ips) |-> Task("B", b, ips[i])]
    IN  flatMap([i \in 1..Len(blocks) |-> OfBlock(blocks[i])])

\* for (const b of hotBlocks) for (const ip of ipsOf24(b, expandLimitPer24))
\*   expandTargets.push(ip)
ExpandList(hot, expandLimitPer24) ==
    LET OfBlock(b) == LET ips == ipsOf24(b, expandLimitPer24)
                      IN  [i \in 1..Len(ips) |-> Task("B", b, ips[i])]
    IN  flatMap([i \in 1..Len(hot) |-> OfBlock(hot[i])])

\* Mutant of AddHot: the set is replaced by the block added.
AddHotReplace(hot, b) == <<b>>

\* Mutant of AddHot: the block is pushed on a list, present or not.
AddHotPush(hot, b) == Append(hot, b)

\* hotBlocks.add(b)
AddHot(hot, b) == IF b \in Range(hot) THEN hot ELSE Append(hot, b)

\* Mutant of BeginScan: an empty list of blocks is scanned like any other.
BeginScanEmpty(finalCidrs) ==
         LET bl == flatMap([i \in 1..Len(finalCidrs) |-> list24Blocks(finalCidrs[i])])
             sampleTargets == SampleTargets(bl, config.samplesPer24)
             qs == SubmitAll([q |-> <<>>, active |-> 0, tasks |-> <<>>],
                             sampleTargets, config.concurrency)
         IN  /\ blocks' = bl
             /\ stages' = Append(stages, [name |-> "A", total |-> Len(sampleTargets)])
             /\ stageADone' = 0
             /\ hotBlocks' = <<>>
             /\ SetQueue(qs)
             /\ pc' = "stageA"
             /\ UNCHANGED <<config, error, stageBDone, expandTargets, valid, found,
                            result, stopRequested, probeCall, pool, events>>

\* From "const blocks" to "await Promise.all" of Stage A, for ranges that
\* parseCIDR takes.
BeginScan(finalCidrs) ==
         LET bl == flatMap([i \in 1..Len(finalCidrs) |-> list24Blocks(finalCidrs[i])]) IN
         IF bl = <<>>
         THEN Throw(<<"No /24 blocks to scan.">>)
         ELSE LET sampleTargets == SampleTargets(bl, config.samplesPer24)
                  qs == SubmitAll([q |-> <<>>, active |-> 0, tasks |-> <<>>],
                                  sampleTargets, config.concurrency)
              IN  /\ blocks' = bl
                  /\ stages' = Append(stages, [name |-> "A", total |-> Len(sampleTargets)])
                  /\ stageADone' = 0
                  /\ hotBlocks' = <<>>
                  /\ SetQueue(qs)
                  /\ pc' = "stageA"
                  /\ UNCHANGED <<config, error, stageBDone, expandTargets, valid, found,
                                 result, stopRequested, probeCall, pool, events>>

\* Mutant of Begin: the ranges parseCIDR rejects are left out and the others
\* are scanned.
BeginSkipBad(finalCidrs) ==
    BeginScan(SelectSeq(finalCidrs, LAMBDA c : ~BadCIDR(c)))

\* finalCidrs.flatMap(list24Blocks) throws at the first range parseCIDR
\* rejects; otherwise the scan begins.
Begin(finalCidrs) ==
    IF \E i \in DOMAIN finalCidrs : BadCIDR(finalCidrs[i])
    THEN Throw(<<"Bad CIDR">>)
    ELSE BeginScan(finalCidrs)

\* runSmartScan is called with the config.
RunSmartScan ==
    /\ pc = "idle"
    /\ IF config.cidrs = <<>>
       THEN /\ pc' = "fetching"
            /\ UNCHANGED <<config, error, blocks, tasks, q, active, hotBlocks, stageADone,
                           stageBDone, expandTargets, valid, stages, found, result,
                           stopRequested, probeCall, pool, events>>
       ELSE Begin(config.cidrs)

\* fetchFastlyCidrs resolved with the remote list.
FetchResolved ==
    /\ pc = "fetching"
    /\ \E l \in RemoteLists : Begin(l)

FallbackFiles ==
    {[readable |-> FALSE, cidrs |-> <<>>]}
        \cup {[readable |-> TRUE, cidrs |-> l] : l \in FallbackLists}

\* The messages fetchFastlyCidrs rejects with: a bad status, an empty list,
\* the abort after the timeout.
FetchErrors ==
    {"Fastly API HTTP 503", "Fastly API returned no IPv4 addresses",
     "This operation was aborted"}

\* What the inner catch gets: the error of readFileSync or the empty-file error.
FallbackError(file) ==
    IF file.readable THEN "Fallback file is empty."
    ELSE "ENOENT: no such file or directory"

\* Mutant of CombinedError: the remote error is dropped.
CombinedErrorFallbackOnly(msg, msg2) ==
    <<"Fastly fetch failed AND fallback file could not be loaded.",
      "Fallback error: ", msg2>>

\* The three lines of the error thrown when both sources fail.
CombinedError(msg, msg2) ==
    <<"Fastly fetch failed AND fallback file could not be loaded.",
      "Fastly error: ", msg, "Fallback error: ", msg2>>

\* fetchFastlyCidrs rejected: the fallback file is read, and an unreadable
\* or empty file makes the combined error.
FetchRejected ==
    /\ pc = "fetching"
    /\ \E msg \in FetchErrors, file \in FallbackFiles :
          IF file.readable /\ file.cidrs # <<>>
          THEN Begin(file.cidrs)
          ELSE Throw(CombinedError(msg, FallbackError(file)))

\* Mutant of StageANext: the result of httpHead is not looked at.
StageANextAnyHead(probe, ok, hostHeader) ==
    IF probe = "tcp"
    THEN IF ok
         THEN IF hostHeader # ""
              THEN [await |-> "head", hot |-> FALSE]
              ELSE [await |-> "done", hot |-> TRUE]
         ELSE [await |-> "done", hot |-> FALSE]
    ELSE [await |-> "done", hot |-> TRUE]

\* What a Stage-A body does with a probe result: the probe it awaits next
\* ("done" when it goes on to the progress tick) and whether it adds its
\* block to hotBlocks.
StageANext(probe, ok, hostHeader) ==
    IF probe = "tcp"
    THEN IF ok
         THEN IF hostHeader # ""
              THEN [await |-> "head", hot |-> FALSE]
              ELSE [await |-> "done", hot |-> TRUE]
         ELSE [await |-> "done", hot |-> FALSE]
    ELSE [await |-> "done", hot |-> ok]

\* A probe of Stage-A task i has resolved with r.
StageAStep(i, r) ==
    LET nxt == StageANext(r.probe, r.ok, config.hostHeader)
        qs1 == Logged(Queue, i, r)
    IN  /\ IF nxt.await = "done"
           THEN /\ hotBlocks' = IF nxt.hot THEN AddHot(hotBlocks, tasks[i].block)
                                ELSE hotBlocks
                /\ stageADone' = stageADone + 1
                /\ events' = onProgress(events, "A", stageADone + 1, stages[1].total)
                /\ SetQueue(settle(qs1, i, "done", config.concurrency))
           ELSE /\ SetQueue(Awaiting(qs1, i, nxt.await))
                /\ UNCHANGED <<hotBlocks, stageADone, events>>
        /\ UNCHANGED <<config, pc, error, blocks, stageBDone, expandTargets, valid,
                       stages, found, result, stopRequested, probeCall, pool>>

StageATcp ==
    \E i \in DOMAIN tasks, open \in BOOLEAN :
        /\ tasks[i].stage = "A"
        /\ tasks[i].pc = "tcp"
        /\ StageAStep(i, TcpResult(open))

StageAHead ==
    \E i \in DOMAIN tasks, ok \in BOOLEAN :
        /\ tasks[i].stage = "A"
        /\ tasks[i].pc = "head"
        /\ StageAStep(i, HeadResult(ok))

\* The records of settled tasks kept once their stage is over.
Forget(ts) == [i \in DOMAIN ts |-> IF Settled(ts[i]) THEN [ts[i] EXCEPT !.log = <<>>]
                                   ELSE ts[i]]

\* The continuation of "await Promise.all" of Stage A: the expansion list,
\* the stage-started event of Stage B and the submission of its tasks.
StageAComplete ==
    /\ pc = "stageA"
    /\ AllSettled(tasks)
    /\ LET targets == ExpandList(hotBlocks, config.expandLimitPer24)
           qs == SubmitAll([q |-> q, active |-> active, tasks |-> Forget(tasks)],
                           targets, config.concurrency)
       IN  /\ expandTargets' = [i \in DOMAIN targets |-> targets[i].ip]
           /\ stages' = Append(stages, [name |-> "B", total |-> Len(targets)])
           /\ stageBDone' = 0
           /\ valid' = <<>>
           /\ SetQueue(qs)
           /\ pc' = "stageB"
    /\ UNCHANGED <<config, error, blocks, hotBlocks, stageADone, found, result,
                   stopRequested, probeCall, pool, events>>

\* Mutant of StageBNext: a failed httpHead does not stop the chain.
StageBNextAnyHead(probe, ok, hostHeader) ==
    IF probe = "tcp"
    THEN IF ~ok THEN "done"
         ELSE IF hostHeader # "" THEN "head" ELSE "ping"
    ELSE IF probe = "head" THEN "ping" ELSE "done"

\* Mutant of StageBNext: httpHead is awaited whether or not a host header is set.
StageBNextAlwaysHead(probe, ok, hostHeader) ==
    IF probe = "tcp"
    THEN IF ~ok THEN "done" ELSE "head"
    ELSE IF probe = "head"
         THEN IF ~ok THEN "done" ELSE "ping"
         ELSE "done"

\* What a Stage-B body awaits after a probe result ("done": tick and return).
StageBNext(probe, ok, hostHeader) ==
    IF probe = "tcp"
    THEN IF ~ok THEN "done"
         ELSE IF hostHeader # "" THEN "head" ELSE "ping"
    ELSE IF probe = "head"
         THEN IF ~ok THEN "done" ELSE "ping"
         ELSE "done"

\* if (p.ok && typeof p.ms === "number")
Accepts(p) == p.ok /\ p.ms # NullMs

\* What the call pingOnce(ip, timeoutMs) makes of spawn("ping", ...): a child
\* with its pipes, or, when the process table or the descriptors are used
\* up, a child without them, on which child.stdout.on throws inside the
\* promise executor, so that the promise pingOnce returns is rejected.
SpawnOutcomes == {"spawned", "no pipes"}

\* The error a task body throws out of "await pingOnce(...)".
PingError == <<"TypeError: Cannot read properties of undefined (reading 'on')">>

\* A rejected submit promise rejects the Promise.all that runSmartScan is
\* awaiting, and runSmartScan throws that error; the other tasks stay in the
\* queue and go on.
PromiseAllRejected(e) ==
    IF pc \in {"stageA", "stageB"}
    THEN pc' = "failed" /\ error' = e
    ELSE UNCHANGED <<pc, error>>

\* A probe of Stage-B task i has resolved with r; spawn is what pingOnce
\* gets if the body goes on to call it.
StageBStep(i, r, spawn) ==
    LET nxt == StageBNext(r.probe, r.ok, config.hostHeader)
        qs1 == Logged(Queue, i, r)
        item == [ip |-> tasks[i].ip, ms |-> r.ms]
        accepted == r.probe = "ping" /\ Accepts(r)
    IN  /\ spawn # "spawned" => nxt = "ping"
        /\ IF nxt = "done"
           THEN /\ valid' = IF accepted THEN Append(valid, item) ELSE valid
                /\ found' = IF accepted THEN Append(found, item) ELSE found
                /\ stageBDone' = stageBDone + 1
                /\ events' = onProgress(IF accepted THEN onValid(events, item) ELSE events,
                                        "B", stageBDone + 1, Len(expandTargets))
                /\ SetQueue(settle(qs1, i, "done", config.concurrency))
                /\ UNCHANGED <<pc, error>>
           ELSE IF spawn = "spawned"
                THEN /\ SetQueue(Awaiting(qs1, i, nxt))
                     /\ UNCHANGED <<valid, found, stageBDone, events, pc, error>>
                ELSE /\ SetQueue(settle(qs1, i, "rejected", config.concurrency))
                     /\ PromiseAllRejected(PingError)
                     /\ UNCHANGED <<valid, found, stageBDone, events>>
        /\ UNCHANGED <<config, blocks, hotBlocks, stageADone, expandTargets,
                       stages, result, stopRequested, probeCall, pool>>

StageBTcp ==
    \E i \in DOMAIN tasks, open \in BOOLEAN, spawn \in SpawnOutcomes :
        /\ tasks[i].stage = "B"
        /\ tasks[i].pc = "tcp"
        /\ StageBStep(i, TcpResult(open), spawn)

StageBHead ==
    \E i \in DOMAIN tasks, ok \in BOOLEAN, spawn \in SpawnOutcomes :
        /\ tasks[i].stage = "B"
        /\ tasks[i].pc = "head"
        /\ StageBStep(i, HeadResult(ok), spawn)

StageBPing ==
    \E i \in DOMAIN tasks, p \in PingResults :
        /\ tasks[i].stage = "B"
        /\ tasks[i].pc = "ping"
        /\ StageBStep(i, p, "spawned")

\* (a, b) => a.ms - b.ms
Compare(a, b) == a.ms - b.ms

RECURSIVE InsertBeforeEqual(_, _)
\* Mutant of Insert: x placed before the elements that compare equal to it
\* (a sort that is not stable).
InsertBeforeEqual(s, x) ==
    IF s = <<>> THEN <<x>>
    ELSE IF Compare(Head(s), x) >= 0 THEN <<x>> \o s
         ELSE <<Head(s)>> \o InsertBeforeEqual(Tail(s), x)

RECURSIVE Insert(_, _)
\* x placed after every element that does not compare greater than it.
Insert(s, x) ==
    IF s = <<>> THEN <<x>>
    ELSE IF Compare(Head(s), x) > 0 THEN <<x>> \o s
         ELSE <<Head(s)>> \o Insert(Tail(s), x)

RECURSIVE Sort(_)
\* Array.prototype.sort with Compare: a stable sort.
Sort(s) == IF s = <<>> THEN <<>> ELSE Insert(Sort(SubSeq(s, 1, Len(s) - 1)), s[Len(s)])

\* v.ms.toFixed(3), for the whole numbers of milliseconds the model draws.
ToFixed3(ms) == [whole |-> ms, thousandths |-> 0]

\* Mutant of Csv: the rows without the header line.
CsvRowsOnly(v) == [i \in DOMAIN v |-> <<v[i].ip, ToFixed3(v[i].ms)>>]

\* Mutant of Csv: the rows are rendered from the list in reverse.
CsvReversed(v) ==
    <<"ip,ping_ms">> \o [i \in DOMAIN v |-> <<v[Len(v) + 1 - i].ip, ToFixed3(v[Len(v) + 1 - i].ms)>>]

\* "ip,ping_ms\n" + valid.map(v => `${v.ip},${v.ms.toFixed(3)}`).join("\n"),
\* as its lines.
Csv(v) == <<"ip,ping_ms">> \o [i \in DOMAIN v |-> <<v[i].ip, ToFixed3(v[i].ms)>>]

\* valid.map(v => v.ip).join("\n"), as its lines.
Txt(v) == [i \in DOMAIN v |-> v[i].ip]

\* The continuation of "await Promise.all" of Stage B: sort, render, return.
StageBComplete ==
    /\ pc = "stageB"
    /\ AllSettled(tasks)
    /\ LET sorted == Sort(valid)
       IN  /\ valid' = sorted
           /\ result' = [hotBlocks |-> Len(hotBlocks),
                         totalBlocks |-> Len(blocks),
                         validCount |-> Len(sorted),
                         valid |-> sorted,
                         txt |-> Txt(sorted),
                         csv |-> Csv(sorted)]
           /\ pc' = "done"
    /\ UNCHANGED <<config, error, blocks, tasks, q, active, hotBlocks, stageADone,
                   stageBDone, expandTargets, stages, found, stopRequested, probeCall, pool, events>>

\* The renderer calls window.api.stopScan(): "scan:stop" is invoked.  main.js
\* registers no handler for it and runSmartScan takes no signal, so nothing
\* of the scan changes.
StopScan ==
    /\ pc \in {"fetching", "stageA", "stageB"}
    /\ ~stopRequested
    /\ stopRequested' = TRUE
    /\ UNCHANGED <<config, pc, error, blocks, tasks, q, active, hotBlocks, stageADone,
                   stageBDone, expandTargets, valid, stages, found, result, events, probeCall, pool>>

Init ==
    /\ config \in Configs
    /\ pc = "idle"
    /\ error = <<>>
    /\ blocks = <<>>
    /\ tasks = <<>>
    /\ q = <<>>
    /\ active = 0
    /\ hotBlocks = <<>>
    /\ stageADone = 0
    /\ stageBDone = 0
    /\ expandTargets = <<>>
    /\ valid = <<>>
    /\ stages = <<>>
    /\ found = <<>>
    /\ result = <<>>
    /\ stopRequested = FALSE
    /\ events = <<>>
    /\ probeCall = <<>>
    /\ pool = <<>>

Next ==
    \/ RunSmartScan
    \/ FetchResolved
    \/ FetchRejected
    \/ StageATcp
    \/ StageAHead
    \/ StageAComplete
    \/ StageBTcp
    \/ StageBHead
    \/ StageBPing
    \/ StageBComplete
    \/ StopScan

Spec == Init /\ [][Next]_vars

\* ------------------------------------------- createQueue used directly
\* A caller that creates a queue and submits up to MaxQueueTasks tasks of its
\* own, at any time; each started task resolves or rejects.
QueueConfigs ==
    [cidrs : {<<>>}, hostHeader : {""}, concurrency : (-1)..MaxConcurrency,
     samplesPer24 : {1}, expandLimitPer24 : {0}]

QueueInit ==
    /\ config \in QueueConfigs
    /\ pc = "queue"
    /\ error = <<>>
    /\ blocks = <<>>
    /\ tasks = <<>>
    /\ q = <<>>
    /\ active = 0
    /\ hotBlocks = <<>>
    /\ stageADone = 0
    /\ stageBDone = 0
    /\ expandTargets = <<>>
    /\ valid = <<>>
    /\ stages = <<>>
    /\ found = <<>>
    /\ result = <<>>
    /\ stopRequested = FALSE
    /\ events = <<>>
    /\ probeCall = <<>>
    /\ pool = <<>>

QueueSubmit ==
    /\ pc = "queue"
    /\ Len(tasks) < MaxQueueTasks
    /\ SetQueue(submit(Queue, Task("Q", 0, <<>>), config.concurrency))
    /\ UNCHANGED <<config, pc, error, blocks, hotBlocks, stageADone, stageBDone,
                   expandTargets, valid, stages, found, result, stopRequested, probeCall, pool, events>>

\* How the promise of job.fn() settled, for a task of a direct user.
FnResult(how) == [probe |-> "fn", ok |-> how = "resolved", ms |-> NullMs]

QueueSettle(i) ==
    /\ i \in DOMAIN tasks
    /\ tasks[i].stage = "Q"
    /\ tasks[i].pc = "running"
    /\ \E how \in {"resolved", "rejected"} :
          SetQueue(settle(Logged(Queue, i, FnResult(how)), i, how, config.concurrency))
    /\ UNCHANGED <<config, pc, error, blocks, hotBlocks, stageADone, stageBDone,
                   expandTargets, valid, stages, found, result, stopRequested, probeCall, pool, events>>

QueueNext ==
    \/ QueueSubmit
    \/ \E i \in 1..MaxQueueTasks : QueueSettle(i)

QueueSpec == QueueInit /\ [][QueueNext]_vars

\* Every started task's promise eventually settles.
QueueFairSpec == QueueSpec /\ \A i \in 1..MaxQueueTasks : WF_vars(QueueSettle(i))

\* The scan and the direct use of the queue, side by side.
AllSpec == (Init \/ QueueInit) /\ [][Next \/ QueueNext]_vars

\* -------------------------------------------- the helpers called directly
\* Base addresses: low, unaligned, either side of the sign bit, high.
HelperBases ==
    {<<0, 0, 0, 0>>, <<10, 0, 0, 0>>, <<10, 0, 0, 130>>, <<10, 1, 2, 3>>,
     <<127, 255, 255, 255>>, <<128, 0, 0, 1>>, <<151, 101, 3, 7>>, <<255, 255, 255, 255>>}

\* What split(".").map(Number) makes of a base that is not four octets:
\* too few parts, too many, a part above 255.
MalformedBases ==
    {<<10>>, <<10, 0, 0>>, <<10, 0, 0, 0, 1>>, <<10, 0, 0, 999>>, <<300, 0, 0, 1>>}

\* The CIDR texts handed to parseCIDR: every prefix length from -1 to 33 with
\* every base, an empty base, and a prefix length that is not a number.
HelperCidrs ==
    {[base |-> b, bits |-> p, nan |-> FALSE] :
        b \in HelperBases \cup MalformedBases \cup {<<>>}, p \in (-1)..33}
        \cup {[base |-> b, bits |-> 0, nan |-> TRUE] : b \in HelperBases}

\* The sample counts handed to sampleIPsIn24.
SampleCounts == {0, 1, 2, 3, 10, 11, 253, 254, 255, 300}

\* The ranges whose first block is sampled with every count.
SampleCidrs ==
    {Net10, [base |-> <<151, 101, 3, 7>>, bits |-> 30, nan |-> FALSE],
     [base |-> <<255, 255, 255, 255>>, bits |-> 32, nan |-> FALSE]}

\* The limits handed to ipsOf24.
ExpandLimits == {-1, 0, 1, 2, 255, 256, 257, 300}

\* The hot sets expanded, in insertion order: a Set holds a block once.
HotLists == {<<>>, <<655360>>, <<655361, 655360>>, <<Pow24 - 1, 0, 655360>>}

HelperInputs ==
    {[cidr |-> c, k |-> 1, limit |-> 0, hot |-> <<>>] : c \in HelperCidrs}
        \cup {[cidr |-> c, k |-> k, limit |-> 0, hot |-> <<>>] :
                  c \in SampleCidrs, k \in SampleCounts}
        \cup {[cidr |-> c, k |-> 1, limit |-> l, hot |-> <<>>] :
                  c \in SampleCidrs, l \in ExpandLimits}
        \cup {[cidr |-> Net10, k |-> 1, limit |-> l, hot |-> h] :
                  l \in ExpandLimits, h \in HotLists}

\* The ranges whose blocks the model lists element by element: the prefix
\* lengths from 16 on, and 0.
Listable(cidr) == cidr.bits = 0 \/ cidr.bits >= 16

HelperInit ==
    /\ \E in \in HelperInputs :
          /\ config = [cidrs |-> <<in.cidr>>, hostHeader |-> "", concurrency |-> 1,
                       samplesPer24 |-> in.k, expandLimitPer24 |-> in.limit]
          /\ hotBlocks = in.hot
    /\ pc = "helper"
    /\ error = <<>>
    /\ blocks = <<>>
    /\ tasks = <<>>
    /\ q = <<>>
    /\ active = 0
    /\ stageADone = 0
    /\ stageBDone = 0
    /\ expandTargets = <<>>
    /\ valid = <<>>
    /\ stages = <<>>
    /\ found = <<>>
    /\ result = <<>>
    /\ stopRequested = FALSE
    /\ events = <<>>
    /\ probeCall = <<>>
    /\ pool = <<>>

\* parseCIDR(cidr): the bounds it returns, or that it threw.
CallParseCIDR ==
    /\ pc = "helper"
    /\ LET cidr == config.cidrs[1] IN
          result' = IF BadCIDR(cidr)
                    THEN [threw |-> TRUE, first |-> Word(0), last |-> Word(0)]
                    ELSE [threw |-> FALSE, first |-> parseCIDR(cidr).first,
                          last |-> parseCIDR(cidr).last]
    /\ pc' = "parsed"
    /\ UNCHANGED <<config, error, blocks, tasks, q, active, hotBlocks, stageADone,
                   stageBDone, expandTargets, valid, stages, found, stopRequested, probeCall, pool, events>>

\* list24Blocks(cidr), for a range parseCIDR takes.
CallList24Blocks ==
    /\ pc = "helper"
    /\ ~BadCIDR(config.cidrs[1])
    /\ Listable(config.cidrs[1])
    /\ blocks' = list24Blocks(config.cidrs[1])
    /\ pc' = "listed"
    /\ UNCHANGED <<config, error, tasks, q, active, hotBlocks, stageADone, stageBDone,
                   expandTargets, valid, stages, found, result, stopRequested, probeCall, pool, events>>

\* sampleIPsIn24(b, k), for the first block b of the range.
CallSampleIPsIn24 ==
    /\ pc = "helper"
    /\ ~BadCIDR(config.cidrs[1])
    /\ Listable(config.cidrs[1])
    /\ list24Blocks(config.cidrs[1]) # <<>>
    /\ LET b == list24Blocks(config.cidrs[1])[1] IN
          /\ blocks' = <<b>>
          /\ result' = [ips |-> sampleIPsIn24(b, config.samplesPer24)]
    /\ pc' = "sampled"
    /\ UNCHANGED <<config, error, tasks, q, active, hotBlocks, stageADone, stageBDone,
                   expandTargets, valid, stages, found, stopRequested, probeCall, pool, events>>

\* ipsOf24(b, limit), for the first block b of the range.
CallIpsOf24 ==
    /\ pc = "helper"
    /\ ~BadCIDR(config.cidrs[1])
    /\ Listable(config.cidrs[1])
    /\ list24Blocks(config.cidrs[1]) # <<>>
    /\ LET b == list24Blocks(config.cidrs[1])[1] IN
          /\ blocks' = <<b>>
          /\ result' = [ips |-> ipsOf24(b, config.expandLimitPer24)]
    /\ pc' = "enumerated"
    /\ UNCHANGED <<config, error, tasks, q, active, hotBlocks, stageADone, stageBDone,
                   expandTargets, valid, stages, found, stopRequested, probeCall, pool, events>>

\* The expansion loop of runSmartScan, run on a given set of hot blocks.
CallExpandList ==
    /\ pc = "helper"
    /\ \E targets \in {ExpandList(hotBlocks, config.expandLimitPer24)} :
          expandTargets' = [i \in DOMAIN targets |-> targets[i].ip]
    /\ pc' = "expanded"
    /\ UNCHANGED <<config, error, blocks, tasks, q, active, hotBlocks, stageADone,
                   stageBDone, valid, stages, found, result, stopRequested, probeCall, pool,
                   events>>

HelperNext ==
    \/ CallParseCIDR
    \/ CallList24Blocks
    \/ CallSampleIPsIn24
    \/ CallIpsOf24
    \/ CallExpandList

HelperSpec == HelperInit /\ [][HelperNext]_vars

\* ------------------------------------------------- the probes, one call
\* One call of tcpOpen, httpHead or pingOnce, followed from the promise
\* executor through the events of its socket, request or child process.
\* state is new before the call, then pending, resolved or rejected; value
\* is what the promise resolved with, thrown what it rejected with; fired is
\* the events delivered to the handlers, in order; destroyed tells that
\* sock.destroy() or req.destroy() was called; killer is the kill timer of
\* pingOnce and killerDelay its delay; out is the round-trip time the regular
\* expression finds in the output collected so far, NullMs for none.
KillGrace == 200

ProbeTimeouts == {500, 1000}

\* Host header values: a plain one, and one standing for a name with a
\* letter outside Latin-1, which http.request refuses with ERR_INVALID_CHAR.
ProbeHosts == {"example.com", "host with a letter above U+00FF"}

InvalidHeaderChar(h) == h = "host with a letter above U+00FF"

NoValue == [probe |-> "none", ok |-> FALSE, ms |-> NullMs]

HeaderError == <<"TypeError [ERR_INVALID_CHAR]: Invalid character in header content">>

ProbeCalls ==
    {[fn |-> f, hostHeaderVal |-> h, timeout |-> t, state |-> "new", value |-> NoValue,
      thrown |-> <<>>, fired |-> <<>>, destroyed |-> FALSE, killer |-> "none",
      killerDelay |-> 0, killed |-> FALSE, out |-> NullMs] :
        f \in {"tcpOpen", "httpHead", "pingOnce"}, h \in ProbeHosts, t \in ProbeTimeouts}

\* Mutant of resolve: a later call replaces the value.
resolveLast(p, v) == [p EXCEPT !.state = "resolved", !.value = v]

\* resolve(v) of a promise: the first call settles it, later calls do nothing.
resolve(p, v) ==
    IF p.state = "pending" THEN [p EXCEPT !.state = "resolved", !.value = v] ELSE p

\* A throw inside the promise executor rejects the promise.
reject(p, e) ==
    IF p.state = "pending" THEN [p EXCEPT !.state = "rejected", !.thrown = e] ELSE p

\* An event is delivered to its handler.
Fired(p, ev) == [p EXCEPT !.fired = Append(@, ev)]

\* done(ok) of tcpOpen: try { sock.destroy() } catch {}; resolve(ok).
done(p, ok) == resolve([p EXCEPT !.destroyed = TRUE], TcpResult(ok))

ProbeInit ==
    /\ probeCall \in ProbeCalls
    /\ config = [cidrs |-> <<>>, hostHeader |-> probeCall.hostHeaderVal, concurrency |-> 1,
                 samplesPer24 |-> 1, expandLimitPer24 |-> 0]
    /\ pc = "probe"
    /\ error = <<>>
    /\ blocks = <<>>
    /\ tasks = <<>>
    /\ q = <<>>
    /\ active = 0
    /\ hotBlocks = <<>>
    /\ stageADone = 0
    /\ stageBDone = 0
    /\ expandTargets = <<>>
    /\ valid = <<>>
    /\ stages = <<>>
    /\ found = <<>>
    /\ result = <<>>
    /\ stopRequested = FALSE
    /\ events = <<>>
    /\ pool = <<>>

\* The executor of tcpOpen: the socket is made, its timeout set, the three
\* handlers registered with once, and connect called.
CallTcpOpen ==
    /\ pc = "probe"
    /\ probeCall.fn = "tcpOpen"
    /\ probeCall.state = "new"
    /\ probeCall' = [probeCall EXCEPT !.state = "pending"]
    /\ UNCHANGED <<config, pc, error, blocks, tasks, q, active, hotBlocks, stageADone,
                   stageBDone, expandTargets, valid, stages, found, result,
                   stopRequested, events, pool>>

\* A socket event reaches its once-handler.  The handlers of the other
\* events stay registered after done, so the model lets them still come.
SockEvent(ev, ok) ==
    /\ probeCall.fn = "tcpOpen"
    /\ probeCall.state # "new"
    /\ ev \notin Range(probeCall.fired)
    /\ probeCall' = done(Fired(probeCall, ev), ok)
    /\ UNCHANGED <<config, pc, error, blocks, tasks, q, active, hotBlocks, stageADone,
                   stageBDone, expandTargets, valid, stages, found, result,
                   stopRequested, events, pool>>

SockConnect == pc = "probe" /\ SockEvent("connect", TRUE)

SockTimeout == pc = "probe" /\ SockEvent("timeout", FALSE)

SockError == pc = "probe" /\ SockEvent("error", FALSE)

\* The executor of httpHead: http.request validates the headers and throws
\* on a Host value it does not take; otherwise the handlers are registered
\* and the request is sent.
CallHttpHead ==
    /\ pc = "probe"
    /\ probeCall.fn = "httpHead"
    /\ probeCall.state = "new"
    /\ probeCall' = IF InvalidHeaderChar(probeCall.hostHeaderVal)
                    THEN reject([probeCall EXCEPT !.state = "pending"], HeaderError)
                    ELSE [probeCall EXCEPT !.state = "pending"]
    /\ UNCHANGED <<config, pc, error, blocks, tasks, q, active, hotBlocks, stageADone,
                   stageBDone, expandTargets, valid, stages, found, result,
                   stopRequested, events, pool>>

\* The response callback: res.resume(); resolve(true).
ReqResponse ==
    /\ pc = "probe"
    /\ probeCall.fn = "httpHead"
    /\ probeCall.state \in {"pending", "resolved"}
    /\ "response" \notin Range(probeCall.fired)
    /\ probeCall' = resolve(Fired(probeCall, "response"), HeadResult(TRUE))
    /\ UNCHANGED <<config, pc, error, blocks, tasks, q, active, hotBlocks, stageADone,
                   stageBDone, expandTargets, valid, stages, found, result,
                   stopRequested, events, pool>>

\* req.on("timeout"): req.destroy(); resolve(false).
ReqTimeout ==
    /\ pc = "probe"
    /\ probeCall.fn = "httpHead"
    /\ probeCall.state \in {"pending", "resolved"}
    /\ "timeout" \notin Range(probeCall.fired)
    /\ probeCall' = resolve([Fired(probeCall, "timeout") EXCEPT !.destroyed = TRUE],
                            HeadResult(FALSE))
    /\ UNCHANGED <<config, pc, error, blocks, tasks, q, active, hotBlocks, stageADone,
                   stageBDone, expandTargets, valid, stages, found, result,
                   stopRequested, events, pool>>

\* req.on("error"): resolve(false).  Destroying the request after a timeout
\* raises this event too.
ReqError ==
    /\ pc = "probe"
    /\ probeCall.fn = "httpHead"
    /\ probeCall.state \in {"pending", "resolved"}
    /\ "error" \notin Range(probeCall.fired)
    /\ probeCall' = resolve(Fired(probeCall, "error"), HeadResult(FALSE))
    /\ UNCHANGED <<config, pc, error, blocks, tasks, q, active, hotBlocks, stageADone,
                   stageBDone, expandTargets, valid, stages, found, result,
                   stopRequested, events, pool>>

\* The executor of pingOnce: spawn, the kill timer, then the handlers; on a
\* child without pipes child.stdout.on throws with the timer already set.
CallPingOnce ==
    /\ pc = "probe"
    /\ probeCall.fn = "pingOnce"
    /\ probeCall.state = "new"
    /\ \E spawn \in SpawnOutcomes :
          LET p == [probeCall EXCEPT !.state = "pending", !.killer = "armed",
                                     !.killerDelay = probeCall.timeout + KillGrace]
          IN  probeCall' = IF spawn = "no pipes" THEN reject(p, PingError) ELSE p
    /\ UNCHANGED <<config, pc, error, blocks, tasks, q, active, hotBlocks, stageADone,
                   stageBDone, expandTargets, valid, stages, found, result,
                   stopRequested, events, pool>>

\* child.stdout / child.stderr "data": out += d.  The regular expression
\* takes the first time in out, so a later one changes nothing.
ChildData ==
    /\ pc = "probe"
    /\ probeCall.fn = "pingOnce"
    /\ probeCall.state = "pending"
    /\ probeCall.out = NullMs
    /\ \E m \in Latencies : probeCall' = [probeCall EXCEPT !.out = m]
    /\ UNCHANGED <<config, pc, error, blocks, tasks, q, active, hotBlocks, stageADone,
                   stageBDone, expandTargets, valid, stages, found, result,
                   stopRequested, events, pool>>

\* The kill timer fires: try { child.kill("SIGKILL") } catch {}.
KillerFires ==
    /\ pc = "probe"
    /\ probeCall.fn = "pingOnce"
    /\ probeCall.killer = "armed"
    /\ probeCall' = [probeCall EXCEPT !.killer = "fired", !.killed = TRUE]
    /\ UNCHANGED <<config, pc, error, blocks, tasks, q, active, hotBlocks, stageADone,
                   stageBDone, expandTargets, valid, stages, found, result,
                   stopRequested, events, pool>>

\* clearTimeout(killer)
clearTimeout(p) == [p EXCEPT !.killer = IF @ = "armed" THEN "cleared" ELSE @]

\* child.on("close"): the timer is cleared and out is matched.
ChildClose ==
    /\ pc = "probe"
    /\ probeCall.fn = "pingOnce"
    /\ probeCall.state \in {"pending", "resolved"}
    /\ "close" \notin Range(probeCall.fired)
    /\ probeCall' =
          resolve(clearTimeout(Fired(probeCall, "close")),
                  [probe |-> "ping", ok |-> probeCall.out # NullMs, ms |-> probeCall.out])
    /\ UNCHANGED <<config, pc, error, blocks, tasks, q, active, hotBlocks, stageADone,
                   stageBDone, expandTargets, valid, stages, found, result,
                   stopRequested, events, pool>>

\* child.on("error"): the timer is cleared, the probe is negative.
ChildError ==
    /\ pc = "probe"
    /\ probeCall.fn = "pingOnce"
    /\ probeCall.state \in {"pending", "resolved"}
    /\ "error" \notin Range(probeCall.fired)
    /\ "close" \notin Range(probeCall.fired)
    /\ probeCall' =
          resolve(clearTimeout(Fired(probeCall, "error")),
                  [probe |-> "ping", ok |-> FALSE, ms |-> NullMs])
    /\ UNCHANGED <<config, pc, error, blocks, tasks, q, active, hotBlocks, stageADone,
                   stageBDone, expandTargets, valid, stages, found, result,
                   stopRequested, events, pool>>

ProbeNext ==
    \/ CallTcpOpen
    \/ SockConnect
    \/ SockTimeout
    \/ SockError
    \/ CallHttpHead
    \/ ReqResponse
    \/ ReqTimeout
    \/ ReqError
    \/ CallPingOnce
    \/ ChildData
    \/ KillerFires
    \/ ChildClose
    \/ ChildError

ProbeSpec == ProbeInit /\ [][ProbeNext]_vars

\* sock.setTimeout(timeout) makes the timeout event come when nothing else
\* does.
ProbeFairSpec == ProbeSpec /\ WF_vars(SockTimeout)

\* ------------------------------------------------ the pool of ping.ts
\* pool.ips is the list read from valid.txt, currentIndex the shared index,
\* workers the state of each worker (awaiting its checkIP on ips[index], or
\* finished), reachableIPs the list collected, output the contents written
\* to reachable.txt, one entry per write.  taken and checked record which
\* worker took which index and how its check ended, in the order it happened.
PoolIp(i) == <<10, 0, 0, ((i - 1) % 3) + 1>>

\* The lines of valid.txt: up to MaxIps addresses (the fourth repeats the
\* first), with or without an empty last line.
PoolFiles ==
    {[i \in 1..n |-> PoolIp(i)] : n \in 0..MaxIps}
        \cup {[i \in 1..n |-> PoolIp(i)] \o <<<<>>>> : n \in 0..MaxIps}

\* split("\n").map(trim).filter(Boolean): the empty lines are dropped.
ReadIps(lines) == SelectSeq(lines, LAMBDA l : l # <<>>)

\* How the fetch of checkIP ends: a response, a network error, or the abort
\* after 3000 ms.
FetchOutcomes == {"response", "error", "abort"}

\* checkIP: true when fetch resolved, false from the catch.
checkIP(outcome) == outcome = "response"

\* The loop of worker, from its head to the await: the next index is taken
\* and counted in one go, or the worker returns.
worker(p, w) ==
    IF p.currentIndex < Len(p.ips)
    THEN [p EXCEPT !.workers[w] = [pc |-> "awaiting", index |-> p.currentIndex + 1],
                   !.taken = Append(@, [index |-> p.currentIndex + 1, worker |-> w]),
                   !.currentIndex = @ + 1]
    ELSE [p EXCEPT !.workers[w] = [pc |-> "finished", index |-> 0]]

\* Mutant of report: the address is pushed whatever the check said.
reportAll(p, w, isAlive) ==
    [p EXCEPT !.reachableIPs = Append(@, p.ips[p.workers[w].index])]

\* if (isAlive) reachableIPs.push(ip)
report(p, w, isAlive) ==
    IF isAlive THEN [p EXCEPT !.reachableIPs = Append(@, p.ips[p.workers[w].index])]
    ELSE p

RECURSIVE StartWorkers(_, _)
\* for (let i = 0; i < concurrency; i++) workers.push(worker()): each call
\* runs to its first await before the next one is made.
StartWorkers(p, w) ==
    IF w > PoolConcurrency THEN p
    ELSE StartWorkers(worker([p EXCEPT !.workers = Append(@, [pc |-> "new", index |-> 0])],
                             w), w + 1)

PoolInit ==
    /\ \E lines \in PoolFiles :
          pool = [ips |-> ReadIps(lines), currentIndex |-> 0, workers |-> <<>>,
                  reachableIPs |-> <<>>, taken |-> <<>>, checked |-> <<>>,
                  output |-> <<>>, pc |-> "loaded"]
    /\ config = [cidrs |-> <<>>, hostHeader |-> "", concurrency |-> PoolConcurrency,
                 samplesPer24 |-> 1, expandLimitPer24 |-> 0]
    /\ pc = "pool"
    /\ error = <<>>
    /\ blocks = <<>>
    /\ tasks = <<>>
    /\ q = <<>>
    /\ active = 0
    /\ hotBlocks = <<>>
    /\ stageADone = 0
    /\ stageBDone = 0
    /\ expandTargets = <<>>
    /\ valid = <<>>
    /\ stages = <<>>
    /\ found = <<>>
    /\ result = <<>>
    /\ stopRequested = FALSE
    /\ events = <<>>
    /\ probeCall = <<>>

\* run(), up to "await Promise.all(workers)".
run ==
    /\ pc = "pool"
    /\ pool.pc = "loaded"
    /\ pool' = [StartWorkers(pool, 1) EXCEPT !.pc = "running"]
    /\ UNCHANGED <<config, pc, error, blocks, tasks, q, active, hotBlocks, stageADone,
                   stageBDone, expandTargets, valid, stages, found, result,
                   stopRequested, events, probeCall>>

\* The checkIP a worker awaits settles: the worker reports and goes round
\* its loop.
CheckSettles(w) ==
    /\ pc = "pool"
    /\ pool.pc = "running"
    /\ w \in DOMAIN pool.workers
    /\ pool.workers[w].pc = "awaiting"
    /\ \E outcome \in FetchOutcomes :
          LET isAlive == checkIP(outcome)
              p1 == [pool EXCEPT !.checked = Append(@, [index |-> pool.workers[w].index,
                                                        worker |-> w, alive |-> isAlive])]
          IN  pool' = worker(report(p1, w, isAlive), w)
    /\ UNCHANGED <<config, pc, error, blocks, tasks, q, active, hotBlocks, stageADone,
                   stageBDone, expandTargets, valid, stages, found, result,
                   stopRequested, events, probeCall>>

\* The continuation of "await Promise.all(workers)": writeFileSync.
WriteOutput ==
    /\ pc = "pool"
    /\ pool.pc = "running"
    /\ \A w \in DOMAIN pool.workers : pool.workers[w].pc = "finished"
    /\ pool' = [pool EXCEPT !.output = Append(@, pool.reachableIPs), !.pc = "written"]
    /\ UNCHANGED <<config, pc, error, blocks, tasks, q, active, hotBlocks, stageADone,
                   stageBDone, expandTargets, valid, stages, found, result,
                   stopRequested, events, probeCall>>

PoolNext ==
    \/ run
    \/ \E w \in 1..PoolConcurrency : CheckSettles(w)
    \/ WriteOutput

PoolSpec == PoolInit /\ [][PoolNext]_vars

\* Every fetch settles (the abort timer sees to it) and the event loop runs
\* every continuation that is ready.
PoolFairSpec == PoolSpec /\ WF_vars(PoolNext)

\* ------------------------------------------------------------- claims
TaskIds(stage) == {i \in DOMAIN tasks : tasks[i].stage = stage}

\* Tasks that have been started and have not settled.
InFlight == Cardinality({i \in DOMAIN tasks : Started(tasks[i]) /\ ~Settled(tasks[i])})

\* C1: with a limit L >= 1 the number of tasks started and not yet settled
\* is at most L in every reachable state, for the queue used directly and
\* for the one queue runSmartScan uses in Stage A and Stage B.
C1_InFlightWithinLimit ==
    config.concurrency >= 1 => InFlight <= config.concurrency

\* Stage B runs at the limit with a task waiting in the queue.
C1_Witness ==
    /\ pc = "stageB"
    /\ config.concurrency = 2
    /\ InFlight = 2
    /\ q # <<>>

\* C2: with a limit L >= 1 and every started task eventually settling, every
\* submitted task is eventually started and settled, rejections included.
C2_EveryTaskSettles ==
    \A i \in 1..MaxQueueTasks :
        (config.concurrency >= 1 /\ i \in DOMAIN tasks)
            ~> (i \in DOMAIN tasks /\ Started(tasks[i]) /\ Settled(tasks[i]))

\* With one slot, the first task rejected and every later task settled.
C2_Witness ==
    /\ pc = "queue"
    /\ config.concurrency = 1
    /\ Len(tasks) = MaxQueueTasks
    /\ tasks[1].pc = "rejected"
    /\ \A i \in 2..Len(tasks) : Settled(tasks[i])

StageBBegun ==
    \/ Len(stages) >= 2
    \/ expandTargets # <<>>
    \/ TaskIds("B") # {}

\* C3: nothing of Stage B exists (no stage-started event, no expansion list,
\* no task) until every Stage-A task has settled and ticked, and hotBlocks
\* does not change once Stage B has begun.
C3_StageBarrier ==
    /\ [](StageBBegun =>
            /\ \A i \in TaskIds("A") : Settled(tasks[i])
            /\ stageADone = stages[1].total
            /\ stageADone = Cardinality(TaskIds("A")))
    /\ [][StageBBegun => hotBlocks' = hotBlocks]_vars

\* Stage B is probing the targets of two hot blocks after two samples.
C3_Witness ==
    /\ pc = "stageB"
    /\ Len(hotBlocks) = 2
    /\ stageADone = 2
    /\ \E i \in TaskIds("B") : tasks[i].pc = "tcp"

\* A sample survived: tcpOpen true and, with a host header, httpHead true.
Survived(log, hostHeader) ==
    /\ TcpResult(TRUE) \in Range(log)
    /\ hostHeader # "" => HeadResult(TRUE) \in Range(log)

\* What a Stage-A task may have awaited: tcpOpen first, httpHead only after
\* tcpOpen was true, pingOnce never.
StageAOrder(t) ==
    /\ t.pc # "ping"
    /\ \A k \in DOMAIN t.log :
          /\ t.log[k].probe # "ping"
          /\ t.log[k].probe = "head" => k = 2 /\ t.log[1] = TcpResult(TRUE)
    /\ t.pc = "head" => t.log = <<TcpResult(TRUE)>>

EndOfStageA == pc = "stageA" /\ \A i \in DOMAIN tasks : tasks[i].pc = "done"

\* C4: when Stage A ends a block is hot exactly if one of its samples
\* survived; a Stage-A task awaits httpHead only after a true tcpOpen and
\* never pingOnce.
C4_HotIffSampleSurvived ==
    /\ \A i \in TaskIds("A") : StageAOrder(tasks[i])
    /\ EndOfStageA =>
          /\ Range(hotBlocks) \subseteq Range(blocks)
          /\ \A b \in Range(blocks) :
                b \in Range(hotBlocks) <=>
                    \E i \in TaskIds("A") :
                        tasks[i].block = b /\ Survived(tasks[i].log, config.hostHeader)

\* With a host header, a block is hot on one surviving sample while another
\* sample of it failed.
C4_Witness ==
    /\ EndOfStageA
    /\ config.hostHeader # ""
    /\ \E i, j \in TaskIds("A") :
          /\ tasks[i].block = tasks[j].block
          /\ Survived(tasks[i].log, config.hostHeader)
          /\ ~Survived(tasks[j].log, config.hostHeader)
          /\ tasks[i].block \in Range(hotBlocks)

\* The block number of a dotted address.
BlockOfIp(ip) == ip[1] * 65536 + ip[2] * 256 + ip[3]

TargetsIn(targets, b) == Cardinality({i \in DOMAIN targets : BlockOfIp(targets[i]) = b})

PerHotBlock == Min(config.expandLimitPer24, BlockSize)

\* ipsOf24 stops at 256 addresses.
ExpandCap == \A limit \in {255, 256, 257, 300} : Len(ipsOf24(2560, limit)) = Min(limit, BlockSize)

\* C5: a block none of whose samples survived contributes no Stage-B target,
\* a block with a surviving sample contributes min(expandLimitPer24, 256),
\* and the Stage-B total is |hotBlocks| * min(expandLimitPer24, 256).
C5_ExpansionPolicy ==
    /\ [](/\ ExpandCap
          /\ Len(stages) >= 2 =>
                /\ Len(expandTargets) = Len(hotBlocks) * PerHotBlock
                /\ stages[2].total = Len(expandTargets)
                /\ Cardinality(TaskIds("B")) = Len(expandTargets))
    /\ [][pc = "stageA" /\ pc' = "stageB" =>
            \A b \in Range(blocks) :
                TargetsIn(expandTargets', b) =
                    IF \E i \in TaskIds("A") :
                          tasks[i].block = b /\ Survived(tasks[i].log, config.hostHeader)
                    THEN PerHotBlock ELSE 0]_vars

\* Two blocks were sampled, one is hot, and only it was expanded.
C5_Witness ==
    /\ Len(stages) >= 2
    /\ Cardinality(Range(blocks)) = 2
    /\ Len(hotBlocks) = 1
    /\ Len(expandTargets) = 1

\* The probes of the validation chain, in order.
Chain(hostHeader) == IF hostHeader # "" THEN <<"tcp", "head", "ping">> ELSE <<"tcp", "ping">>

\* The probes a Stage-B task has made follow the chain, none follows a
\* failed one, and the task awaits the next of the chain or has stopped.
StageBOrder(t, hostHeader) ==
    LET chain == Chain(hostHeader) IN
    /\ Len(t.log) <= Len(chain)
    /\ \A k \in DOMAIN t.log :
          /\ t.log[k].probe = chain[k]
          /\ k < Len(t.log) => t.log[k].ok
    /\ t.pc \in {"tcp", "head", "ping"} =>
          /\ Len(t.log) < Len(chain)
          /\ t.pc = chain[Len(t.log) + 1]
          /\ \A k \in DOMAIN t.log : t.log[k].ok
    /\ t.pc = "done" =>
          /\ t.log # <<>>
          /\ t.log[Len(t.log)].ok => Len(t.log) = Len(chain)
    /\ t.pc = "queued" => t.log = <<>>

\* The latency with which a target passed the whole chain, if it did.
PassedWith(log, hostHeader) ==
    {m \in Latencies :
        /\ Survived(log, hostHeader)
        /\ [probe |-> "ping", ok |-> TRUE, ms |-> m] \in Range(log)}

\* C6: the returned valid list holds exactly the Stage-B targets whose
\* tcpOpen was true, whose httpHead was true when a host header is set and
\* whose pingOnce was ok, with that latency; the probes run in the order
\* TCP, HEAD, ping and none is made after a failed one.
C6_ValidIffChainPassed ==
    /\ \A i \in TaskIds("B") : StageBOrder(tasks[i], config.hostHeader)
    /\ pc = "done" =>
          /\ \A k \in DOMAIN result.valid : result.valid[k].ip \in Range(expandTargets)
          /\ \A i \in TaskIds("B"), m \in Latencies :
                [ip |-> tasks[i].ip, ms |-> m] \in Range(result.valid)
                    <=> m \in PassedWith(tasks[i].log, config.hostHeader)

\* A scan with a host header returned one valid address, and stopped at a
\* failed httpHead for another target and at a failed ping for a third.
C6_Witness ==
    /\ pc = "done"
    /\ config.hostHeader # ""
    /\ Len(result.valid) = 1
    /\ \E i, j \in TaskIds("B") :
          /\ tasks[i].log = <<TcpResult(TRUE), HeadResult(FALSE)>>
          /\ Len(tasks[j].log) = 3
          /\ ~tasks[j].log[3].ok

\* C7: without a host header httpHead is never awaited, in Stage A or in
\* Stage B, and every Stage-B target with tcpOpen true goes on to pingOnce
\* and is in the valid list when that ping is ok.
C7_NoHostNoHead ==
    config.hostHeader = "" =>
        /\ \A i \in DOMAIN tasks :
              /\ tasks[i].pc # "head"
              /\ \A k \in DOMAIN tasks[i].log : tasks[i].log[k].probe # "head"
        /\ pc = "done" =>
              \A i \in TaskIds("B") :
                  /\ TcpResult(TRUE) \in Range(tasks[i].log) =>
                        Len(tasks[i].log) = 2 /\ tasks[i].log[2].probe = "ping"
                  /\ \A m \in Latencies :
                        [probe |-> "ping", ok |-> TRUE, ms |-> m] \in Range(tasks[i].log)
                            => [ip |-> tasks[i].ip, ms |-> m] \in Range(result.valid)

\* A scan without a host header returned a valid address.
C7_Witness ==
    /\ pc = "done"
    /\ config.hostHeader = ""
    /\ Len(result.valid) >= 1

\* C8: Stage A has one task per sample of every distinct block: the total it
\* announces and the number of its tasks are the number of distinct blocks
\* times min(samplesPer24, 254).
C8_SampledOncePerBlock ==
    Len(stages) >= 1 =>
        /\ stages[1].total = Cardinality(Range(blocks)) * Min(config.samplesPer24, MaxOffset)
        /\ Cardinality(TaskIds("A")) = stages[1].total

\* The position of an entry in the order of discovery.
FoundAt(item) == CHOOSE k \in DOMAIN found : found[k] = item

\* C9: the returned valid list is in ascending order of latency, holds the
\* entries that were accepted, and keeps entries of equal latency in the
\* order in which they were accepted.
C9_SortedStable ==
    pc = "done" =>
        /\ Len(result.valid) = Len(found)
        /\ Range(result.valid) = Range(found)
        /\ \A i, j \in DOMAIN result.valid :
              i < j =>
                  /\ result.valid[i].ms <= result.valid[j].ms
                  /\ result.valid[i].ms = result.valid[j].ms =>
                        FoundAt(result.valid[i]) < FoundAt(result.valid[j])

\* Three entries were returned in another order than they were accepted in,
\* two of them with the same latency.
C9_Witness ==
    /\ pc = "done"
    /\ Len(result.valid) = 3
    /\ result.valid # found
    /\ \E i \in 1..2 : result.valid[i].ms = result.valid[i + 1].ms

\* A task starts its first probe in this step.
StartsProbe ==
    \E i \in DOMAIN tasks' :
        /\ tasks'[i].pc = "tcp"
        /\ i \in DOMAIN tasks => tasks[i].pc = "queued"

\* C10: once a stop has been requested during a running scan, no task starts
\* a probe any more.
C10_NoStartAfterStop == [][stopRequested => ~StartsProbe]_vars

\* C11: an exception thrown inside a task body stays with that task: it does
\* not make runSmartScan throw, so the stage can still complete and the scan
\* can still return a result.
C11_TaskFailureIsolated ==
    (\E i \in TaskIds("A") \cup TaskIds("B") : tasks[i].pc = "rejected")
        => pc # "failed" /\ error = <<>>

\* An address as four octets in 0..255.
WellFormedBase(base) == Len(base) = 4 /\ \A i \in 1..4 : base[i] \in 0..255

\* The 32-bit word of a well-formed address, octet by octet.
WordOf(base) == [hi |-> base[1] * 65536 + base[2] * 256 + base[3], lo |-> base[4]]

\* a <= b for unsigned 32-bit words.
WordLeq(a, b) == a.hi < b.hi \/ (a.hi = b.hi /\ a.lo <= b.lo)

Unsigned32(w) == w.hi \in 0..(Pow24 - 1) /\ w.lo \in 0..(BlockSize - 1)

\* The range first..last holds exactly 2^low addresses and starts at a
\* multiple of 2^low.
AlignedRange(first, last, low) ==
    IF low >= 8
    THEN /\ first.lo = 0
         /\ last.lo = BlockSize - 1
         /\ last.hi - first.hi + 1 = 2 ^ (low - 8)
         /\ first.hi % (2 ^ (low - 8)) = 0
    ELSE /\ first.hi = last.hi
         /\ last.lo - first.lo + 1 = 2 ^ low
         /\ first.lo % (2 ^ low) = 0

\* C12: for every prefix length 0..32 and every base address, parseCIDR
\* returns unsigned 32-bit bounds with first <= last, 2^(32 - p) addresses
\* between them inclusive, first a multiple of 2^(32 - p), and the base
\* inside them.
C12_NetworkBounds ==
    (pc = "parsed" /\ WellFormedBase(config.cidrs[1].base)
        /\ ~config.cidrs[1].nan /\ config.cidrs[1].bits \in 0..32) =>
        /\ ~result.threw
        /\ Unsigned32(result.first) /\ Unsigned32(result.last)
        /\ WordLeq(result.first, result.last)
        /\ AlignedRange(result.first, result.last, 32 - config.cidrs[1].bits)
        /\ WordLeq(result.first, WordOf(config.cidrs[1].base))
        /\ WordLeq(WordOf(config.cidrs[1].base), result.last)

\* An unaligned base with the top bit set, under a /20: 151.101.0.0 to
\* 151.101.15.255.
C12_Witness ==
    /\ pc = "parsed"
    /\ config.cidrs[1] = [base |-> <<151, 101, 3, 7>>, bits |-> 20, nan |-> FALSE]
    /\ intToIp(result.first) = <<151, 101, 0, 0>>
    /\ intToIp(result.last) = <<151, 101, 15, 255>>

\* C13: list24Blocks returns the 256-aligned blocks from the one holding
\* first to the one holding last, ascending and contiguous: one block for a
\* prefix length of 24 or more, 2^(24 - p) blocks for p <= 24, p = 0 included.
C13_BlocksOfRange ==
    (pc = "listed" /\ WellFormedBase(config.cidrs[1].base)) =>
        LET cidr == config.cidrs[1] IN
        /\ Len(blocks) = IF cidr.bits >= 24 THEN 1 ELSE 2 ^ (24 - cidr.bits)
        /\ blocks # <<>> =>
              /\ blocks[1] = parseCIDR(cidr).first.hi
              /\ blocks[Len(blocks)] = parseCIDR(cidr).last.hi
        /\ \A i \in DOMAIN blocks :
              /\ blocks[i] \in 0..(Pow24 - 1)
              /\ i > 1 => blocks[i] = blocks[i - 1] + 1

\* The offsets of sampled addresses from their block b.
Offsets(ips) == [i \in DOMAIN ips |-> ips[i][4]]

\* C14: sampleIPsIn24(b, k) returns min(k, 254) addresses of block b whose
\* offsets are pairwise distinct and in 1..254, the same offsets in the same
\* order for every block.
C14_Samples ==
    pc = "sampled" =>
        LET k == config.samplesPer24
            ips == result.ips
        IN  /\ Len(ips) = Min(k, MaxOffset)
            /\ \A i \in DOMAIN ips :
                  /\ BlockOfIp(ips[i]) = blocks[1]
                  /\ ips[i][4] \in 1..MaxOffset
                  /\ \A j \in DOMAIN ips : ips[i] = ips[j] => i = j
            /\ Offsets(ips) = Offsets(sampleIPsIn24(0, k))
            /\ Offsets(ips) = Offsets(sampleIPsIn24(Pow24 - 1, k))

\* 300 samples were asked of the block of 151.101.3.4/30 and 254 returned,
\* the first at offset 10.
C14_Witness ==
    /\ pc = "sampled"
    /\ config.samplesPer24 = 300
    /\ config.cidrs[1].bits = 30
    /\ Len(result.ips) = MaxOffset
    /\ result.ips[1] = <<151, 101, 3, 10>>

\* What the claim calls a text that is not a range: no prefix length in
\* 0..32, or a base that is not four octets in 0..255.
Malformed(cidr) ==
    \/ cidr.nan
    \/ cidr.bits \notin 0..32
    \/ ~WellFormedBase(cidr.base)

\* C15: parseCIDR throws for every text without a prefix length in 0..32 and
\* for every base that is not four octets in 0..255.
C15_MalformedRejected ==
    (pc = "parsed" /\ Malformed(config.cidrs[1])) => result.threw

\* Nothing of a scan has happened: no stage-started event, no task, no hook
\* call, no result.
NothingRun == stages = <<>> /\ tasks = <<>> /\ events = <<>> /\ result = <<>>

\* C16: when parseCIDR rejects an entry of the range list, runSmartScan
\* throws one error before Stage A: no stage-started event, no probe, no
\* result over the ranges that are well formed.
C16_BadRangeFatal ==
    /\ []((config.cidrs # <<>> /\ \E i \in DOMAIN config.cidrs : BadCIDR(config.cidrs[i]))
            => /\ pc \in {"idle", "failed"}
               /\ pc = "failed" => error = <<"Bad CIDR">>
               /\ NothingRun)
    /\ [](error = <<"Bad CIDR">> => pc = "failed" /\ NothingRun)
    /\ [][error # <<>> => error' = error]_vars

\* A list whose first range is well formed and whose second is not has failed.
C16_Witness ==
    /\ config.cidrs = <<Net10, Bad33>>
    /\ pc = "failed"
    /\ error = <<"Bad CIDR">>

\* The first line of the error thrown when the remote list and the fallback
\* file both fail.
CombinedMessage == "Fastly fetch failed AND fallback file could not be loaded."

\* C17: with no cidrs in the config the remote list is tried first and the
\* fallback file after it has failed; when the file is unreadable or empty
\* one error carrying the remote error and the fallback error is thrown and
\* nothing of the scan has run.  With cidrs in the config neither source is
\* used.
C17_Acquisition ==
    /\ [](/\ pc = "fetching" => config.cidrs = <<>> /\ NothingRun
          /\ (error # <<>> /\ error[1] = CombinedMessage) =>
                /\ config.cidrs = <<>>
                /\ pc = "failed"
                /\ NothingRun
                /\ \E msg \in FetchErrors, file \in FallbackFiles :
                      /\ ~file.readable \/ file.cidrs = <<>>
                      /\ error = <<CombinedMessage, "Fastly error: ", msg,
                                   "Fallback error: ", FallbackError(file)>>)
    /\ [][pc = "idle" => (pc' = "fetching" <=> config.cidrs = <<>>)]_vars

\* The remote list answered 503 and the fallback file was empty.
C17_Witness ==
    /\ pc = "failed"
    /\ config.cidrs = <<>>
    /\ error = <<CombinedMessage, "Fastly error: ", "Fastly API HTTP 503",
                 "Fallback error: ", "Fallback file is empty.">>

\* The onProgress calls of a stage, in the order they were made.
ProgressOf(stage) ==
    SelectSeq(events, LAMBDA e : e.kind = "progress" /\ e.stage = stage)

\* The total the stage-started event of the k-th stage announced.
Announced(k) == IF Len(stages) >= k THEN stages[k].total ELSE 0

\* The tasks of a stage whose body has run to its end.
Finished(stage) == {i \in TaskIds(stage) : tasks[i].pc = "done"}

\* The progress events of a stage count 1, 2, ... up to at most the total
\* announced, carry that total, and are one per finished task.
Counted(stage, k) ==
    LET P == ProgressOf(stage) IN
    /\ \A i \in DOMAIN P : P[i].done = i /\ P[i].total = Announced(k)
    /\ Len(P) <= Announced(k)
    /\ Len(P) = Cardinality(Finished(stage))

ValidAt == {k \in DOMAIN events : events[k].kind = "valid"}

\* The entries the onValid calls announced, in the order of the calls.
Announcements ==
    LET V == SelectSeq(events, LAMBDA e : e.kind = "valid")
    IN  [i \in DOMAIN V |-> [ip |-> V[i].ip, ms |-> V[i].ms]]

\* How often x occurs in the sequence s.
Count(s, x) == Cardinality({i \in DOMAIN s : s[i] = x})

\* C19: onValid is called once for each accepted entry when it is accepted:
\* after the ping of that address, right before the progress tick of the
\* same task, never at the return; the entries announced are the entries of
\* the returned valid list and validCount is their number.
C19_ValidAnnounced ==
    /\ [](/\ \A k \in ValidAt :
                /\ k < Len(events)
                /\ events[k + 1].kind = "progress" /\ events[k + 1].stage = "B"
                /\ \E i \in Finished("B") :
                      /\ tasks[i].ip = events[k].ip
                      /\ tasks[i].log[Len(tasks[i].log)] =
                             [probe |-> "ping", ok |-> TRUE, ms |-> events[k].ms]
          /\ \A i \in TaskIds("B") :
                Cardinality({k \in ValidAt : events[k].ip = tasks[i].ip}) =
                    IF i \in Finished("B") /\ PassedWith(tasks[i].log, config.hostHeader) # {}
                    THEN 1 ELSE 0
          /\ pc \in {"stageB", "failed"} => Announcements = valid
          /\ pc = "done" =>
                /\ result.validCount = Len(Announcements)
                /\ Len(result.valid) = Len(Announcements)
                /\ \A x \in Range(Announcements) \cup Range(result.valid) :
                      Count(result.valid, x) = Count(Announcements, x))
    /\ [][pc' = "done" => events' = events]_vars

\* A scan returned two entries, announced in the other order, with a target
\* that failed between them.
C19_Witness ==
    /\ pc = "done"
    /\ Len(Announcements) = 2
    /\ result.valid # Announcements
    /\ \E k \in ValidAt : k + 2 \in DOMAIN events /\ events[k + 2].kind = "progress"

Rank(p) ==
    CASE p \in {"idle", "fetching"} -> 0
      [] p = "stageA" -> 1
      [] p = "stageB" -> 2
      [] p = "done" -> 3
      [] OTHER -> 4

\* The events of Stage B: its progress ticks and the valid announcements.
IsStageB(e) == IF e.kind = "valid" THEN TRUE ELSE e.stage = "B"

IsStageA(e) == IF e.kind = "valid" THEN FALSE ELSE e.stage = "A"

SetupErrors ==
    {<<"Bad CIDR">>, <<"No /24 blocks to scan.">>}
        \cup {CombinedError(m, FallbackError(f)) : m \in FetchErrors, f \in FallbackFiles}

C21_Order ==
    /\ Len(stages) <= 2
    /\ Len(stages) >= 1 => stages[1].name = "A" /\ blocks # <<>>
    /\ Len(stages) = 2 => stages[2].name = "B"
    /\ pc \in {"idle", "fetching"} => NothingRun
    /\ pc = "stageA" => Len(stages) = 1
    /\ pc \in {"stageB", "done"} => Len(stages) = 2
    /\ (result # <<>>) <=> (pc = "done")
    /\ Len(stages) < 1 => events = <<>>
    /\ Len(stages) < 2 => \A k \in DOMAIN events : IsStageA(events[k])
    /\ Len(stages) = 2 =>
          Cardinality({k \in DOMAIN events : IsStageA(events[k])}) = stages[1].total
    /\ \A j, k \in DOMAIN events :
          IsStageA(events[j]) /\ IsStageB(events[k]) => j < k
    /\ pc = "done" =>
          Cardinality({k \in DOMAIN events :
                          events[k].kind = "progress" /\ IsStageB(events[k])})
              = stages[2].total
    /\ pc = "failed" /\ error \in SetupErrors => NothingRun

C21_Step ==
    /\ Rank(pc') >= Rank(pc)
    /\ pc \in {"done", "failed"} => pc' = pc
    /\ stages' # stages =>
          /\ Len(stages') = Len(stages) + 1
          /\ SubSeq(stages', 1, Len(stages)) = stages
          /\ Rank(pc') = Len(stages')
    /\ pc = "done" => events' = events /\ result' = result
    /\ pc = "failed" => result' = result /\ stages' = stages

\* C21: a run goes idle, Stage A, Stage B, done and never back, with failed
\* as the other end; the start of Stage A is announced once and before any
\* Stage-A progress, the start of Stage B once, after the last Stage-A
\* progress and before any Stage-B progress or valid event, the result
\* comes after the last Stage-B progress, and a run that fails while
\* setting up has announced no stage, has no result and never does.
C21_StageOrder == []C21_Order /\ [][C21_Step]_vars

C21_Witness ==
    /\ pc = "done"
    /\ Len(events) = 4
    /\ IsStageA(events[1])
    /\ events[2].kind = "valid"
    /\ result.validCount = 1

\* ------------------------------------------------------------------ C22
\* C22: tasks are started in the order they were submitted (a task's index
\* is its place in that order): a task is started only when every task
\* submitted before it has been, and the waiting tasks wait in that order;
\* nothing is said of the order in which they settle.
C22_StartedInSubmissionOrder ==
    /\ \A i, j \in DOMAIN tasks : i < j /\ Started(tasks[j]) => Started(tasks[i])
    /\ \A m, n \in DOMAIN q : m < n => q[m] < q[n]
    /\ \A i \in DOMAIN tasks : ~Started(tasks[i]) <=> i \in Range(q)

C22_Witness ==
    /\ pc = "queue"
    /\ Len(tasks) = 4
    /\ tasks[1].pc = "running"
    /\ Settled(tasks[2])
    /\ tasks[3].pc = "running"
    /\ tasks[4].pc = "queued"

\* ------------------------------------------------------------------ C23
TcpProbes(t) == {k \in DOMAIN t.log : t.log[k].probe = "tcp"}

C23_Hot ==
    /\ \A m, n \in DOMAIN hotBlocks : hotBlocks[m] = hotBlocks[n] => m = n
    /\ pc = "stageA" =>
          /\ Len(tasks) = stages[1].total
          /\ \A i \in DOMAIN tasks :
                /\ tasks[i].stage = "A"
                /\ tasks[i].pc = "done" =>
                      /\ Cardinality(TcpProbes(tasks[i])) = 1
                      /\ Survived(tasks[i].log, config.hostHeader) =>
                            tasks[i].block \in Range(hotBlocks)

C23_Grows ==
    /\ Len(hotBlocks') >= Len(hotBlocks)
    /\ SubSeq(hotBlocks', 1, Len(hotBlocks)) = hotBlocks
    /\ pc = "stageA" /\ pc' = "stageA" => Len(tasks') = Len(tasks)

\* C23: in Stage A the set of hot blocks only grows: no step takes a block
\* out, adding a block that is in it changes nothing, and the block of every
\* surviving sample is in it; no sample task is dropped, so each of the
\* sample targets gets its one tcpOpen.
C23_HotBlocksOnlyGrow == []C23_Hot /\ [][C23_Grows]_vars

\* Without a host header: two samples of one block, one open and one not,
\* both probed, the block hot once.
C23_Witness ==
    /\ EndOfStageA
    /\ config.hostHeader = ""
    /\ Len(hotBlocks) = 1
    /\ \E i, j \in TaskIds("A") :
          /\ i < j
          /\ tasks[i].block = tasks[j].block
          /\ tasks[i].log = <<TcpResult(TRUE)>>
          /\ tasks[j].log = <<TcpResult(FALSE)>>

\* ------------------------------------------------------------------ C24
\* The address at an offset of a block, octet by octet.
AddressAt(b, off) == <<b \div 65536, (b \div 256) % 256, b % 256, off>>

\* How many addresses a limit allows.
Allowed(limit) == IF limit <= 0 THEN 0 ELSE IF limit >= 256 THEN 256 ELSE limit

\* C24: ipsOf24(b, limit) is the addresses of block b at the offsets 0, 1,
\* ... up to min(limit, 256) - 1, ascending, and nothing when limit <= 0;
\* the Stage-B target list is these sequences, one per hot block, end to
\* end in the order the blocks entered the hot set.
C24_Expansion ==
    LET n == Allowed(config.expandLimitPer24) IN
    /\ pc = "enumerated" =>
          /\ Len(result.ips) = n
          /\ \A i \in 1..n : result.ips[i] = AddressAt(blocks[1], i - 1)
    /\ pc = "expanded" =>
          /\ Len(expandTargets) = n * Len(hotBlocks)
          /\ \A j \in DOMAIN hotBlocks : \A i \in 1..n :
                expandTargets[(j - 1) * n + i] = AddressAt(hotBlocks[j], i - 1)

\* Three hot blocks, not in ascending order, expanded in full.
C24_Witness ==
    /\ pc = "expanded"
    /\ config.expandLimitPer24 = 300
    /\ Len(hotBlocks) = 3
    /\ expandTargets[256] = <<255, 255, 255, 255>>
    /\ expandTargets[257] = <<0, 0, 0, 0>>
    /\ expandTargets[768] = <<10, 0, 0, 255>>

\* ------------------------------------------------------------------ C25
C25_Outcome ==
    pc = "probe" /\ probeCall.fn = "tcpOpen" =>
        /\ probeCall.state # "rejected"
        /\ probeCall.state \in {"new", "pending"} <=> probeCall.fired = <<>>
        /\ probeCall.fired # <<>> =>
              /\ probeCall.value = TcpResult(probeCall.fired[1] = "connect")
              /\ probeCall.destroyed

C25_Final ==
    pc = "probe" /\ probeCall.fn = "tcpOpen" /\ probeCall.state = "resolved" =>
        probeCall'.state = "resolved" /\ probeCall'.value = probeCall.value

C25_Resolves ==
    (pc = "probe" /\ probeCall.fn = "tcpOpen" /\ probeCall.state = "pending")
        ~> (probeCall.state = "resolved")

C26_PingOnce ==
    pc = "probe" /\ probeCall.fn = "pingOnce" =>
        /\ probeCall.state # "rejected"
        /\ probeCall.state # "new" => probeCall.killerDelay = probeCall.timeout + KillGrace
        /\ probeCall.fired # <<>> => probeCall.killer # "armed"
        /\ probeCall.state = "resolved" =>
              /\ probeCall.fired # <<>>
              /\ probeCall.value.ok <=> probeCall.value.ms # NullMs
              /\ probeCall.value.ok => probeCall.value.ms = probeCall.out

\* ------------------------------------------------------------------ C27
C27_HeadOutcome ==
    pc = "probe" /\ probeCall.fn = "httpHead" =>
        /\ probeCall.state # "rejected"
        /\ probeCall.fired # <<>> =>
              probeCall.value = HeadResult(probeCall.fired[1] = "response")

C27_HeadFinal ==
    pc = "probe" /\ probeCall.fn = "httpHead" /\ probeCall.state = "resolved" =>
        probeCall'.state = "resolved" /\ probeCall'.value = probeCall.value

\* C27: the promise of httpHead is never rejected; the first of response,
\* timeout and error resolves it, true for a response and false for the
\* others, and what comes after (the error of the destroyed request, a late
\* response) changes nothing.
C27_HttpHead == []C27_HeadOutcome /\ [][C27_HeadFinal]_vars

\* ------------------------------------------------------------------ C28
\* C28: when Stage A leaves no block hot the run still ends normally: Stage
\* B is announced with total 0, it has no task, no progress and no valid
\* event, and the result is empty: no valid entry, counts 0, no txt line
\* and only the header in csv.
C28_NoHotBlock ==
    Len(stages) = 2 /\ hotBlocks = <<>> =>
        /\ stages[2].total = 0
        /\ expandTargets = <<>>
        /\ TaskIds("B") = {}
        /\ \A k \in DOMAIN events : IsStageA(events[k])
        /\ pc \in {"stageB", "done"}
        /\ pc = "stageB" => ENABLED StageBComplete
        /\ pc = "done" =>
              result = [hotBlocks |-> 0, totalBlocks |-> Len(blocks), validCount |-> 0,
                        valid |-> <<>>, txt |-> <<>>, csv |-> <<"ip,ping_ms">>]

C28_Witness ==
    /\ pc = "done"
    /\ hotBlocks = <<>>
    /\ result.totalBlocks = 2
    /\ Len(events) = 2
    /\ result.csv = <<"ip,ping_ms">>

\* ------------------------------------------------------------------ C29
Distinct(s) == \A m, n \in DOMAIN s : s[m] = s[n] => m = n

\* C29: no address is twice in the Stage-B target list, whatever blocks the
\* ranges repeat and however many samples of a block survive, and so none
\* is twice in the valid list, in txt or among the rows of csv.
C29_AddressesOnce ==
    /\ Distinct(expandTargets)
    /\ Distinct([i \in TaskIds("B") |-> tasks[i].ip])
    /\ Distinct([i \in DOMAIN valid |-> valid[i].ip])
    /\ pc = "done" =>
          /\ Distinct([i \in DOMAIN result.valid |-> result.valid[i].ip])
          /\ Distinct(result.txt)
          /\ Distinct([i \in 2..Len(result.csv) |-> result.csv[i][1]])

\* The same block listed twice, sampled twice, expanded once.
C29_Witness ==
    /\ pc = "done"
    /\ Len(blocks) = 2
    /\ blocks[1] = blocks[2]
    /\ stages[1].total = 2
    /\ Len(expandTargets) = 2
    /\ result.validCount = 2

\* ------------------------------------------------------------------ C30
C30_Stalled ==
    config.concurrency <= 0 =>
        /\ \A i \in DOMAIN tasks : ~Started(tasks[i])
        /\ active = 0
        /\ events = <<>>
        /\ result = <<>>
        /\ pc \in {"idle", "fetching", "stageA", "failed"}
        /\ pc = "failed" => stages = <<>>

C30_Stays == config.concurrency <= 0 /\ pc = "stageA" => pc' = "stageA"

\* C30: with a concurrency of zero or less no task is ever started: once
\* Stage A is announced there is no progress event, and the run neither
\* returns nor throws, it stays in Stage A.
C30_NothingStarts == []C30_Stalled /\ [][C30_Stays]_vars

C30_Witness ==
    /\ pc = "stageA"
    /\ config.concurrency = -1
    /\ Len(stages) = 1
    /\ Len(q) = 2
    /\ stopRequested

\* ------------------------------------------------------------------ C31
InFlightChecks == {w \in DOMAIN pool.workers : pool.workers[w].pc = "awaiting"}

\* The addresses of the checks that succeeded, in the order they ended.
Succeeded == LET ok == SelectSeq(pool.checked, LAMBDA c : c.alive)
             IN  [k \in DOMAIN ok |-> pool.ips[ok[k].index]]

C31_Pool ==
    pc = "pool" =>
        /\ Len(pool.taken) = pool.currentIndex
        /\ pool.currentIndex <= Len(pool.ips)
        /\ \A k \in DOMAIN pool.taken : pool.taken[k].index = k
        /\ Distinct([k \in DOMAIN pool.checked |-> pool.checked[k].index])
        /\ \A k \in DOMAIN pool.checked :
              \E j \in DOMAIN pool.taken :
                  /\ pool.taken[j].index = pool.checked[k].index
                  /\ pool.taken[j].worker = pool.checked[k].worker
        /\ Cardinality(InFlightChecks) = Len(pool.taken) - Len(pool.checked)
        /\ Cardinality(InFlightChecks) <= PoolConcurrency
        /\ Len(pool.workers) <= PoolConcurrency
        /\ Len(pool.output) = IF pool.pc = "written" THEN 1 ELSE 0
        /\ pool.pc = "written" =>
              /\ \A w \in DOMAIN pool.workers : pool.workers[w].pc = "finished"
              /\ Len(pool.checked) = Len(pool.ips)
              /\ pool.output[1] = Succeeded

C31_Written == (pc = "pool") ~> (pc = "pool" /\ pool.pc = "written")

\* C31: whatever the order in which the checks end, the indices of the input
\* are taken one by one, none skipped and none twice, each by one worker
\* that checks it once; no more checks are in flight than there are workers;
\* reachable.txt is written once, when every worker has returned, and holds
\* the addresses whose check succeeded.
C31_WorkerPool == []C31_Pool /\ C31_Written

\* Four addresses for two workers: the second check ended before the first,
\* one check failed, and the file has been written.
C31_Witness ==
    /\ pc = "pool"
    /\ pool.pc = "written"
    /\ Len(pool.ips) = MaxIps
    /\ pool.checked[1].index = 2
    /\ Len(pool.output[1]) = MaxIps - 1
    /\ pool.output[1][1] = pool.output[1][MaxIps - 1]

\* ------------------------------------------------------------------ C32
C32_Counter ==
    /\ active = InFlight
    /\ active >= 0
    /\ Distinct(q)
    /\ \A i \in DOMAIN tasks : tasks[i].pc = "queued" <=> i \in Range(q)
    /\ Range(q) \subseteq DOMAIN tasks
    /\ q = <<>> /\ (\A i \in DOMAIN tasks : Settled(tasks[i])) => active = 0
    /\ \A i \in DOMAIN tasks :
          tasks[i].stage = "Q" =>
              /\ Settled(tasks[i]) <=> tasks[i].log # <<>>
              /\ Settled(tasks[i]) =>
                    /\ tasks[i].log = <<FnResult(tasks[i].pc)>>
                    /\ tasks[i].pc \in {"resolved", "rejected"}

\* A job that has left q does not come back, and a settled one stays as it
\* settled.
C32_Once ==
    (pc' = pc /\ pc \in {"queue", "stageA", "stageB", "failed"}) =>
        \A i \in DOMAIN tasks :
            /\ i \in DOMAIN tasks'
            /\ Started(tasks[i]) => Started(tasks'[i])
            /\ Settled(tasks[i]) => tasks'[i].pc = tasks[i].pc

\* C32: the counter active of a queue is the number of jobs taken from q and
\* started that have not settled, so it is never negative and is 0 when q is
\* empty and every task has settled; a job is in q until it is started and
\* never again; the promise submit returned is resolved when the job's own
\* promise was fulfilled and rejected when it was rejected.
C32_QueueCounter == []C32_Counter /\ [][C32_Once]_vars

\* Two slots, four jobs: the first rejected, the second resolved, one more
\* settled and one still running, nothing waiting.
C32_Witness ==
    /\ pc = "queue"
    /\ config.concurrency = 2
    /\ Len(tasks) = 4
    /\ tasks[1].pc = "rejected"
    /\ tasks[2].pc = "resolved"
    /\ active = 1
    /\ q = <<>>
====
